---- MODULE Spec2Model ----
(***************************************************************************)
(* AES-128 forward cipher of "Block Ciphers/aes.py": the AES instance      *)
(* (key, round_keys), its constructor with the key schedule, and the       *)
(* encrypt / partially_encrypt calls of a set of threads, one step per     *)
(* statement of the call and of round / final_round.                       *)
(*                                                                         *)
(* Bytes are the integers 0..255.  A bytes object or list is a sequence;   *)
(* Python's 0-based x[j] is At(x, j).                                      *)
(***************************************************************************)
EXTENDS Integers, Sequences, FiniteSets, TLC

VARIABLES
    arg_key,   \* the key argument of the AES(key) call, <<>> before the call
    aes,       \* the instance: [status, key, round_keys]
    calls      \* per thread: the frame of its encrypt / partially_encrypt call

vars == <<arg_key, aes, calls>>

-----------------------------------------------------------------------------
(* Bounds of the model.                                                    *)

\* key arguments have every length 0..MaxKeyLen
MaxKeyLen == 33
\* plaintext arguments have length 0 or KeySize - 1 .. MaxPlainLen
MaxPlainLen == 17
\* num_rounds arguments range over -NegRounds..MaxNumRounds
NegRounds == 1
MaxNumRounds == 13
\* threads sharing the instance in SpecThreads
NThreads == 2

-----------------------------------------------------------------------------
(* Constant tables.                                                        *)

S_BOX == <<
    \h63, \h7c, \h77, \h7b, \hf2, \h6b, \h6f, \hc5, \h30, \h01, \h67, \h2b, \hfe, \hd7, \hab, \h76,
    \hca, \h82, \hc9, \h7d, \hfa, \h59, \h47, \hf0, \had, \hd4, \ha2, \haf, \h9c, \ha4, \h72, \hc0,
    \hb7, \hfd, \h93, \h26, \h36, \h3f, \hf7, \hcc, \h34, \ha5, \he5, \hf1, \h71, \hd8, \h31, \h15,
    \h04, \hc7, \h23, \hc3, \h18, \h96, \h05, \h9a, \h07, \h12, \h80, \he2, \heb, \h27, \hb2, \h75,
    \h09, \h83, \h2c, \h1a, \h1b, \h6e, \h5a, \ha0, \h52, \h3b, \hd6, \hb3, \h29, \he3, \h2f, \h84,
    \h53, \hd1, \h00, \hed, \h20, \hfc, \hb1, \h5b, \h6a, \hcb, \hbe, \h39, \h4a, \h4c, \h58, \hcf,
    \hd0, \hef, \haa, \hfb, \h43, \h4d, \h33, \h85, \h45, \hf9, \h02, \h7f, \h50, \h3c, \h9f, \ha8,
    \h51, \ha3, \h40, \h8f, \h92, \h9d, \h38, \hf5, \hbc, \hb6, \hda, \h21, \h10, \hff, \hf3, \hd2,
    \hcd, \h0c, \h13, \hec, \h5f, \h97, \h44, \h17, \hc4, \ha7, \h7e, \h3d, \h64, \h5d, \h19, \h73,
    \h60, \h81, \h4f, \hdc, \h22, \h2a, \h90, \h88, \h46, \hee, \hb8, \h14, \hde, \h5e, \h0b, \hdb,
    \he0, \h32, \h3a, \h0a, \h49, \h06, \h24, \h5c, \hc2, \hd3, \hac, \h62, \h91, \h95, \he4, \h79,
    \he7, \hc8, \h37, \h6d, \h8d, \hd5, \h4e, \ha9, \h6c, \h56, \hf4, \hea, \h65, \h7a, \hae, \h08,
    \hba, \h78, \h25, \h2e, \h1c, \ha6, \hb4, \hc6, \he8, \hdd, \h74, \h1f, \h4b, \hbd, \h8b, \h8a,
    \h70, \h3e, \hb5, \h66, \h48, \h03, \hf6, \h0e, \h61, \h35, \h57, \hb9, \h86, \hc1, \h1d, \h9e,
    \he1, \hf8, \h98, \h11, \h69, \hd9, \h8e, \h94, \h9b, \h1e, \h87, \he9, \hce, \h55, \h28, \hdf,
    \h8c, \ha1, \h89, \h0d, \hbf, \he6, \h42, \h68, \h41, \h99, \h2d, \h0f, \hb0, \h54, \hbb, \h16
>>

RCON == <<\h01, \h02, \h04, \h08, \h10, \h20, \h40, \h80, \h1B, \h36>>

\* the key and block size in bytes
KeySize == 16

\* the index of the last round key, the round without mix_column
LastRound == 10

\* the number of rounds of the full cipher
FullRounds == 10

\* num_rounds when the caller passes none
DefaultNumRounds == 10

\* the number of 4-byte words of the key schedule
NumWords == 44

-----------------------------------------------------------------------------
(* Python's operators on ints and sequences.                               *)

\* x[j], 0-based
At(x, j) == x[j + 1]

\* x[a:b], 0-based, clipped to the sequence as slicing is
Slice(x, a, b) == SubSeq(x, a + 1, IF b < Len(x) THEN b ELSE Len(x))

\* a ^ b on two hex digits: row a, column b
XorDigit == <<
    << 0,  1,  2,  3,  4,  5,  6,  7,  8,  9, 10, 11, 12, 13, 14, 15>>,
    << 1,  0,  3,  2,  5,  4,  7,  6,  9,  8, 11, 10, 13, 12, 15, 14>>,
    << 2,  3,  0,  1,  6,  7,  4,  5, 10, 11,  8,  9, 14, 15, 12, 13>>,
    << 3,  2,  1,  0,  7,  6,  5,  4, 11, 10,  9,  8, 15, 14, 13, 12>>,
    << 4,  5,  6,  7,  0,  1,  2,  3, 12, 13, 14, 15,  8,  9, 10, 11>>,
    << 5,  4,  7,  6,  1,  0,  3,  2, 13, 12, 15, 14,  9,  8, 11, 10>>,
    << 6,  7,  4,  5,  2,  3,  0,  1, 14, 15, 12, 13, 10, 11,  8,  9>>,
    << 7,  6,  5,  4,  3,  2,  1,  0, 15, 14, 13, 12, 11, 10,  9,  8>>,
    << 8,  9, 10, 11, 12, 13, 14, 15,  0,  1,  2,  3,  4,  5,  6,  7>>,
    << 9,  8, 11, 10, 13, 12, 15, 14,  1,  0,  3,  2,  5,  4,  7,  6>>,
    <<10, 11,  8,  9, 14, 15, 12, 13,  2,  3,  0,  1,  6,  7,  4,  5>>,
    <<11, 10,  9,  8, 15, 14, 13, 12,  3,  2,  1,  0,  7,  6,  5,  4>>,
    <<12, 13, 14, 15,  8,  9, 10, 11,  4,  5,  6,  7,  0,  1,  2,  3>>,
    <<13, 12, 15, 14,  9,  8, 11, 10,  5,  4,  7,  6,  1,  0,  3,  2>>,
    <<14, 15, 12, 13, 10, 11,  8,  9,  6,  7,  4,  5,  2,  3,  0,  1>>,
    <<15, 14, 13, 12, 11, 10,  9,  8,  7,  6,  5,  4,  3,  2,  1,  0>>
>>

\* a ^ b on non-negative ints, a hex digit at a time
RECURSIVE Xor(_, _)
Xor(a, b) ==
    IF a < 16 /\ b < 16
    THEN At(At(XorDigit, a), b)
    ELSE At(At(XorDigit, a % 16), b % 16) + 16 * Xor(a \div 16, b \div 16)

\* sum(lists, []): the concatenation of a sequence of sequences
RECURSIVE Sum(_)
Sum(lists) == IF lists = <<>> THEN <<>> ELSE Head(lists) \o Sum(Tail(lists))

\* the sequence zip(x, y) pairs up: as long as the shorter one
ZipLen(x, y) == IF Len(x) < Len(y) THEN Len(x) ELSE Len(y)

-----------------------------------------------------------------------------
(* Galois field arithmetic.                                                *)

\* seeded fault: the reduction by 0x1B left out
mul_by_02_unreduced(b) == (2 * b) % 256

mul_by_02(b) ==
    IF (b \div 128) % 2 = 1
    THEN Xor(2 * b, 27) % 256
    ELSE (2 * b) % 256

mul_by_03(b) == Xor(mul_by_02(b), b)

mul_by_01(b) == b

-----------------------------------------------------------------------------
(* State transformations.                                                  *)

\* seeded fault: byte addition in place of ^
add_round_key_sum(state, round_key) ==
    [j \in 1..ZipLen(state, round_key) |-> (state[j] + round_key[j]) % 256]

add_round_key(state, round_key) ==
    [j \in 1..ZipLen(state, round_key) |-> Xor(state[j], round_key[j])]

byte_substitution(state) ==
    [j \in 1..Len(state) |-> At(S_BOX, state[j])]

\* shift_rows and mix_column read state[0..15]: IndexError on a shorter state
ReadsInRange(state) == Len(state) >= KeySize

shift_rows(state) ==
    LET matrix == [r \in 0..3 |-> [c \in 1..4 |-> At(state, r + 4 * (c - 1))]]
        shifted == [r \in 0..3 |->
                      IF r = 0 THEN matrix[r]
                      ELSE Slice(matrix[r], r, 4) \o Slice(matrix[r], 0, r)]
    IN  [k \in 1..16 |-> At(shifted[(k - 1) % 4], (k - 1) \div 4)]

mix_single_column(a) ==
    << Xor(Xor(Xor(mul_by_02(At(a, 0)), mul_by_03(At(a, 1))), At(a, 2)), At(a, 3)),
       Xor(Xor(Xor(At(a, 0), mul_by_02(At(a, 1))), mul_by_03(At(a, 2))), At(a, 3)),
       Xor(Xor(Xor(At(a, 0), At(a, 1)), mul_by_02(At(a, 2))), mul_by_03(At(a, 3))),
       Xor(Xor(Xor(mul_by_03(At(a, 0)), At(a, 1)), At(a, 2)), mul_by_02(At(a, 3))) >>

mix_column(state) ==
    LET matrix == [c \in 0..3 |-> [r \in 1..4 |-> At(state, (r - 1) + 4 * c)]]
        mixed == [c \in 0..3 |-> mix_single_column(matrix[c])]
    IN  [k \in 1..16 |-> At(mixed[(k - 1) \div 4], (k - 1) % 4)]

-----------------------------------------------------------------------------
(* Key schedule.                                                           *)

\* seeded fault: the while loop stopping four words early
RECURSIVE ExpandLoopShort(_, _)
ExpandLoopShort(key_columns, i) ==
    IF Len(key_columns) < NumWords - 4
    THEN LET last == key_columns[Len(key_columns)]
             rotated == Slice(last, 1, 4) \o Slice(last, 0, 1)
             subbed == [j \in 1..Len(rotated) |-> At(S_BOX, rotated[j])]
             withRcon == [subbed EXCEPT ![1] = Xor(@, At(RCON, (i \div 4) - 1))]
             word == IF i % 4 = 0 THEN withRcon ELSE last
             new == [j \in 1..ZipLen(word, At(key_columns, i - 4)) |->
                        Xor(word[j], At(key_columns, i - 4)[j])]
         IN  ExpandLoopShort(Append(key_columns, new), i + 1)
    ELSE key_columns

\* the while loop of key_expansion, from its state (key_columns, i)
RECURSIVE ExpandLoop(_, _)
ExpandLoop(key_columns, i) ==
    IF Len(key_columns) < NumWords
    THEN LET last == key_columns[Len(key_columns)]
             rotated == Slice(last, 1, 4) \o Slice(last, 0, 1)
             subbed == [j \in 1..Len(rotated) |-> At(S_BOX, rotated[j])]
             withRcon == [subbed EXCEPT ![1] = Xor(@, At(RCON, (i \div 4) - 1))]
             word == IF i % 4 = 0 THEN withRcon ELSE last
             new == [j \in 1..ZipLen(word, At(key_columns, i - 4)) |->
                        Xor(word[j], At(key_columns, i - 4)[j])]
         IN  ExpandLoop(Append(key_columns, new), i + 1)
    ELSE key_columns

key_expansion(key) ==
    LET first == [w \in 1..4 |-> Slice(key, 4 * (w - 1), 4 * (w - 1) + 4)]
        key_columns == ExpandLoop(first, 4)
    IN  [k \in 1..(NumWords \div 4) |->
            Sum(Slice(key_columns, 4 * (k - 1), 4 * (k - 1) + 4))]

-----------------------------------------------------------------------------
(* The arguments the callers pass.                                         *)

\* FIPS-197 Appendix C.1 key 00 01 .. 0f, cut or continued to n bytes
KeyOfLen(n) == [j \in 1..n |-> (j - 1) % 256]

\* FIPS-197 Appendix B key
KeyB == <<\h2b, \h7e, \h15, \h16, \h28, \hae, \hd2, \ha6,
          \hab, \hf7, \h15, \h88, \h09, \hcf, \h4f, \h3c>>

Keys == {KeyOfLen(n) : n \in 0..MaxKeyLen} \cup {KeyB}

\* FIPS-197 Appendix C.1 plaintext 00 11 .. ff
PlainC == [j \in 1..16 |-> 17 * (j - 1)]

\* FIPS-197 Appendix B input
PlainB == <<\h32, \h43, \hf6, \ha8, \h88, \h5a, \h30, \h8d,
            \h31, \h31, \h98, \ha2, \he0, \h37, \h07, \h34>>

\* a block cut or continued to n bytes
Fit(block, n) == [j \in 1..n |-> IF j <= Len(block) THEN block[j] ELSE (j * 29) % 256]

PlainLens == {0} \cup ((KeySize - 1)..MaxPlainLen)

Plaintexts == {Fit(b, n) : b \in {PlainC, PlainB}, n \in PlainLens}

NumRounds == (0 - NegRounds)..MaxNumRounds

\* the num_rounds argument: <<>> when the caller passes none, else <<n>>
Given(S) == {<<>>} \cup {<<n>> : n \in S}

\* what the threads of SpecThreads pass
ThreadKeys == {KeyOfLen(KeySize)}
ThreadPlaintexts == {PlainC}
ThreadNumRounds == {<<2>>}

\* what the two callers of SpecPair pass
PairKeys == {KeyOfLen(KeySize), KeyB}
PairPlaintexts == {PlainC, PlainB}
PairNumRounds == {<<>>, <<FullRounds>>}

-----------------------------------------------------------------------------
(* The instance and the frames.                                            *)

NoInstance == [status |-> "none", key |-> <<>>, round_keys |-> <<>>]

NoKey == 0 - 1

\* a frame: pc is the statement to run next; i is the loop variable; fn is
\* the round function being run, round_key and rk its argument and the index
\* that argument was read at; trace lists the transformations applied and
\* keys the round key indices read, in order
Idle ==
    [pc |-> "idle", op |-> "none", plaintext |-> <<>>, given |-> <<>>, num_rounds |-> 0,
     state |-> <<>>, i |-> 0, fn |-> "none", round_key |-> <<>>, rk |-> NoKey,
     trace |-> <<>>, keys |-> <<>>, result |-> <<>>, error |-> "none"]

Entry(name, k) == [op |-> name, key |-> k]

Init ==
    /\ arg_key = <<>>
    /\ aes = NoInstance
    /\ calls = [t \in 1..1 |-> Idle]

InitThreads ==
    /\ arg_key = <<>>
    /\ aes = NoInstance
    /\ calls = [t \in 1..NThreads |-> Idle]

InitPair ==
    /\ arg_key = <<>>
    /\ aes = NoInstance
    /\ calls = [t \in 1..2 |-> Idle]

-----------------------------------------------------------------------------
(* AES.__init__                                                            *)

\* seeded fault: longer keys let through
ValidKeySizeAtLeast(key) == Len(key) >= KeySize

ValidKeySize(key) == Len(key) = KeySize

Construct(key) ==
    /\ aes.status = "none"
    /\ arg_key' = key
    /\ aes' = IF ~ValidKeySize(key)
              THEN [NoInstance EXCEPT !.status = "ValueError"]
              ELSE [status |-> "ready", key |-> key, round_keys |-> key_expansion(key)]
    /\ UNCHANGED calls

-----------------------------------------------------------------------------
(* encrypt and partially_encrypt                                           *)

\* self.round_keys[k]: IndexError past the end of the list
HasRoundKey(k) == k < Len(aes.round_keys)

\* seeded faults: the range one short, and one long, in partially_encrypt
LoopBoundShort(c) == IF c.op = "encrypt" THEN FullRounds ELSE c.num_rounds - 1
LoopBoundInclusive(c) == IF c.op = "encrypt" THEN FullRounds ELSE c.num_rounds + 1

\* the end of the range the for loop runs over
LoopBound(c) == IF c.op = "encrypt" THEN FullRounds ELSE c.num_rounds

\* seeded fault: final_round running mix_column too
AfterShiftAlwaysMix(fn) == "mix"

\* the statement after shift_rows: round has mix_column, final_round has not
AfterShift(fn) == IF fn = "round" THEN "mix" ELSE "ark"

Raise(c, e) == [c EXCEPT !.pc = "raised", !.error = e]

\* the call: a frame with the arguments bound; encrypt takes no num_rounds,
\* partially_encrypt defaults it
Call(t, op, plaintext, given) ==
    /\ aes.status = "ready"
    /\ calls[t].pc \in {"idle", "done", "raised"}
    /\ op = "encrypt" => given = <<>>
    /\ calls' = [calls EXCEPT ![t] =
                   [Idle EXCEPT !.pc = "whiten", !.op = op,
                                !.plaintext = plaintext,
                                !.given = given,
                                !.num_rounds = IF op = "encrypt" THEN 0
                                               ELSE IF given = <<>> THEN DefaultNumRounds
                                               ELSE given[1]]]
    /\ UNCHANGED <<arg_key, aes>>

\* seeded fault: the whitened state written back over self.round_keys[0]
WhitenInPlace(t) ==
    LET c == calls[t]
        whitened == add_round_key(c.plaintext, At(aes.round_keys, 0))
    IN
    /\ c.pc = "whiten"
    /\ calls' = [calls EXCEPT ![t] =
                   [c EXCEPT !.state = whitened,
                             !.trace = Append(@, Entry("add_round_key", 0)),
                             !.keys = Append(@, 0),
                             !.i = 1,
                             !.pc = "loop"]]
    /\ aes' = [aes EXCEPT !.round_keys[1] = whitened]
    /\ UNCHANGED arg_key

\* state = self.add_round_key(plaintext, self.round_keys[0])
Whiten(t) ==
    LET c == calls[t] IN
    /\ c.pc = "whiten"
    /\ calls' = [calls EXCEPT ![t] =
                   [c EXCEPT !.state = add_round_key(c.plaintext, At(aes.round_keys, 0)),
                             !.trace = Append(@, Entry("add_round_key", 0)),
                             !.keys = Append(@, 0),
                             !.i = 1,
                             !.pc = "loop"]]
    /\ UNCHANGED <<arg_key, aes>>

\* for i in range(1, ...): state = self.round(state, self.round_keys[i])
LoopNext(t) ==
    LET c == calls[t] IN
    /\ c.pc = "loop"
    /\ calls' = [calls EXCEPT ![t] =
                   IF c.i < LoopBound(c)
                   THEN IF HasRoundKey(c.i)
                        THEN [c EXCEPT !.fn = "round",
                                       !.round_key = At(aes.round_keys, c.i),
                                       !.rk = c.i,
                                       !.keys = Append(@, c.i),
                                       !.pc = "sub"]
                        ELSE Raise([c EXCEPT !.keys = Append(@, c.i)], "IndexError")
                   ELSE [c EXCEPT !.pc = IF c.op = "encrypt" THEN "final" ELSE "check"]]
    /\ UNCHANGED <<arg_key, aes>>

\* if num_rounds == 10:
Check(t) ==
    LET c == calls[t] IN
    /\ c.pc = "check"
    /\ calls' = [calls EXCEPT ![t] =
                   [c EXCEPT !.pc = IF c.num_rounds = FullRounds THEN "final" ELSE "ret"]]
    /\ UNCHANGED <<arg_key, aes>>

\* state = self.final_round(state, self.round_keys[10])
Final(t) ==
    LET c == calls[t] IN
    /\ c.pc = "final"
    /\ calls' = [calls EXCEPT ![t] =
                   IF HasRoundKey(LastRound)
                   THEN [c EXCEPT !.fn = "final_round",
                                  !.round_key = At(aes.round_keys, LastRound),
                                  !.rk = LastRound,
                                  !.keys = Append(@, LastRound),
                                  !.pc = "sub"]
                   ELSE Raise([c EXCEPT !.keys = Append(@, LastRound)], "IndexError")]
    /\ UNCHANGED <<arg_key, aes>>

\* round / final_round: state = AES.byte_substitution(state)
SubBytes(t) ==
    LET c == calls[t] IN
    /\ c.pc = "sub"
    /\ calls' = [calls EXCEPT ![t] =
                   [c EXCEPT !.state = byte_substitution(c.state),
                             !.trace = Append(@, Entry("byte_substitution", NoKey)),
                             !.pc = "shift"]]
    /\ UNCHANGED <<arg_key, aes>>

\* round / final_round: state = AES.shift_rows(state)
ShiftRows(t) ==
    LET c == calls[t] IN
    /\ c.pc = "shift"
    /\ calls' = [calls EXCEPT ![t] =
                   IF ReadsInRange(c.state)
                   THEN [c EXCEPT !.state = shift_rows(c.state),
                                  !.trace = Append(@, Entry("shift_rows", NoKey)),
                                  !.pc = AfterShift(c.fn)]
                   ELSE Raise(c, "IndexError")]
    /\ UNCHANGED <<arg_key, aes>>

\* round: state = AES.mix_column(state)
MixColumn(t) ==
    LET c == calls[t] IN
    /\ c.pc = "mix"
    /\ calls' = [calls EXCEPT ![t] =
                   IF ReadsInRange(c.state)
                   THEN [c EXCEPT !.state = mix_column(c.state),
                                  !.trace = Append(@, Entry("mix_column", NoKey)),
                                  !.pc = "ark"]
                   ELSE Raise(c, "IndexError")]
    /\ UNCHANGED <<arg_key, aes>>

\* round / final_round: state = AES.add_round_key(state, round_key); return state
AddRoundKey(t) ==
    LET c == calls[t] IN
    /\ c.pc = "ark"
    /\ calls' = [calls EXCEPT ![t] =
                   [c EXCEPT !.state = add_round_key(c.state, c.round_key),
                             !.trace = Append(@, Entry("add_round_key", c.rk)),
                             !.i = IF c.fn = "round" THEN c.i + 1 ELSE c.i,
                             !.pc = IF c.fn = "round" THEN "loop" ELSE "ret"]]
    /\ UNCHANGED <<arg_key, aes>>

\* return state
Return(t) ==
    LET c == calls[t] IN
    /\ c.pc = "ret"
    /\ calls' = [calls EXCEPT ![t] = [c EXCEPT !.result = c.state, !.pc = "done"]]
    /\ UNCHANGED <<arg_key, aes>>

Step(t) ==
    \/ Whiten(t)
    \/ LoopNext(t)
    \/ Check(t)
    \/ Final(t)
    \/ SubBytes(t)
    \/ ShiftRows(t)
    \/ MixColumn(t)
    \/ AddRoundKey(t)
    \/ Return(t)

\* the calls a caller makes, with plaintexts from P and num_rounds from G
Calls(t, P, G) ==
    \/ \E p \in P : Call(t, "encrypt", p, <<>>)
    \/ \E p \in P, g \in G : Call(t, "partially_encrypt", p, g)

Next ==
    \/ \E key \in Keys : Construct(key)
    \/ \E t \in DOMAIN calls : Calls(t, Plaintexts, Given(NumRounds))
    \/ \E t \in DOMAIN calls : Step(t)

NextThreads ==
    \/ \E key \in ThreadKeys : Construct(key)
    \/ \E t \in DOMAIN calls : Calls(t, ThreadPlaintexts, ThreadNumRounds)
    \/ \E t \in DOMAIN calls : Step(t)

NextPair ==
    \/ \E key \in PairKeys : Construct(key)
    \/ \E t \in DOMAIN calls : Calls(t, PairPlaintexts, PairNumRounds)
    \/ \E t \in DOMAIN calls : Step(t)

\* one caller, every argument
Spec == Init /\ [][Next]_vars

\* NThreads threads on one instance
SpecThreads == InitThreads /\ [][NextThreads]_vars

\* two callers comparing full encryptions
SpecPair == InitPair /\ [][NextPair]_vars

-----------------------------------------------------------------------------
(* Properties.                                                             *)

IsBlock(b) == Len(b) = 16

\* bit j of a byte, and a ^ b of two bytes bit by bit
Bit(x, j) == (x \div (2 ^ j)) % 2
BitXor(a, b) ==
    LET d(j) == ((Bit(a, j) + Bit(b, j)) % 2) * (2 ^ j)
    IN  d(0) + d(1) + d(2) + d(3) + d(4) + d(5) + d(6) + d(7)

IsPrefix(a, b) == Len(a) <= Len(b) /\ a = SubSeq(b, 1, Len(a))

\* how many entries of a trace apply the transformation named
Count(trace, name) == Cardinality({j \in 1..Len(trace) : trace[j].op = name})

\* the trace of the initial add_round_key and main rounds 1..n
RECURSIVE MainRounds(_)
MainRounds(n) ==
    IF n <= 0
    THEN <<Entry("add_round_key", 0)>>
    ELSE MainRounds(n - 1) \o
           <<Entry("byte_substitution", NoKey), Entry("shift_rows", NoKey),
             Entry("mix_column", NoKey), Entry("add_round_key", n)>>

\* the trace of round n run without mix_column
LastRoundOf(n) ==
    <<Entry("byte_substitution", NoKey), Entry("shift_rows", NoKey),
      Entry("add_round_key", n)>>

\* the indices 0..n in order
UpTo(n) == [k \in 1..(n + 1) |-> k - 1]

FipsKey == <<\h00, \h01, \h02, \h03, \h04, \h05, \h06, \h07,
             \h08, \h09, \h0a, \h0b, \h0c, \h0d, \h0e, \h0f>>
FipsPlain == <<\h00, \h11, \h22, \h33, \h44, \h55, \h66, \h77,
               \h88, \h99, \haa, \hbb, \hcc, \hdd, \hee, \hff>>
FipsCipher == <<\h69, \hc4, \he0, \hd8, \h6a, \h7b, \h04, \h30,
                \hd8, \hcd, \hb7, \h80, \h70, \hb4, \hc5, \h5a>>

\* C1: with key 000102..0f, encrypt of 00112233..ff returns 69c4e0d8..c55a.
C1_KnownAnswer ==
    \A t \in DOMAIN calls :
        (/\ arg_key = FipsKey
         /\ calls[t].op = "encrypt"
         /\ calls[t].plaintext = FipsPlain
         /\ calls[t].pc = "done")
        => calls[t].result = FipsCipher

C1_Witness ==
    /\ arg_key = FipsKey
    /\ calls[1].op = "encrypt"
    /\ calls[1].plaintext = FipsPlain
    /\ calls[1].pc = "done"

\* C2: on one instance, partially_encrypt(p, 10) and partially_encrypt(p)
\* return the block encrypt(p) returns, for every 16-byte p, and do not raise.
C2_FullRoundsIsEncrypt ==
    \A t \in DOMAIN calls, u \in DOMAIN calls :
        (/\ calls[t].op = "encrypt"
         /\ calls[t].pc = "done"
         /\ calls[u].op = "partially_encrypt"
         /\ calls[u].given \in {<<>>, <<10>>}
         /\ calls[u].plaintext = calls[t].plaintext
         /\ IsBlock(calls[u].plaintext))
        => /\ calls[u].pc # "raised"
           /\ calls[u].pc = "done" => calls[u].result = calls[t].result

C2_Witness ==
    /\ arg_key = KeyB
    /\ calls[1].op = "encrypt"
    /\ calls[1].pc = "done"
    /\ calls[1].plaintext = PlainB
    /\ calls[2].op = "partially_encrypt"
    /\ calls[2].given = <<>>
    /\ calls[2].pc = "done"
    /\ calls[2].plaintext = PlainB

\* C3: partially_encrypt(p, n), n in 1..10, on a 16-byte p applies exactly n
\* rounds after the initial add_round_key, reading round keys 0..n in order;
\* round n has mix_column when n < 10 and has none when n = 10.
C3_RunsNumRounds ==
    \A t \in DOMAIN calls :
        LET c == calls[t]
            n == c.num_rounds
        IN  (/\ c.op = "partially_encrypt"
             /\ c.pc = "done"
             /\ IsBlock(c.plaintext)
             /\ n \in 1..10)
            => /\ c.keys = UpTo(n)
               /\ Count(c.trace, "byte_substitution") = n
               /\ c.trace = IF n < 10 THEN MainRounds(n)
                            ELSE MainRounds(9) \o LastRoundOf(10)

\* C4: AES(key) raises the invalid key size error exactly when the key is not
\* 16 bytes long, and then no key and no round keys have been stored.
C4_KeySizeValidated ==
    aes.status # "none"
    => /\ Len(arg_key) # 16 => /\ aes.status = "ValueError"
                               /\ aes.key = <<>>
                               /\ aes.round_keys = <<>>
       /\ Len(arg_key) = 16 => aes.status = "ready"

C4_Witness == aes.status = "ValueError" /\ Len(arg_key) = 32

\* C5: the key schedule of a constructed instance has exactly 11 round keys
\* of 16 bytes each, and round key 0 is the master key.
C5_KeyScheduleShape ==
    aes.status = "ready"
    => /\ Len(aes.round_keys) = 11
       /\ \A k \in 1..Len(aes.round_keys) : Len(aes.round_keys[k]) = 16
       /\ aes.round_keys[1] = arg_key
       /\ aes.key = arg_key

C5_Witness == aes.status = "ready" /\ arg_key = KeyB /\ Len(aes.round_keys) > 0

\* C6: a call whose plaintext is not 16 bytes long returns no block.
C6_BadLengthReturnsNothing ==
    \A t \in DOMAIN calls :
        (calls[t].op # "none" /\ ~IsBlock(calls[t].plaintext))
        => calls[t].pc # "done"

\* C7 (result): two completed encrypt calls with the same plaintext on the
\* instance return the same block.
SameEncryptSameBlock ==
    \A t \in DOMAIN calls, u \in DOMAIN calls :
        (/\ calls[t].op = "encrypt" /\ calls[t].pc = "done"
         /\ calls[u].op = "encrypt" /\ calls[u].pc = "done"
         /\ calls[t].plaintext = calls[u].plaintext)
        => calls[t].result = calls[u].result

\* C7: no step of any call of any thread changes the constructed instance
\* (key and round keys stay as constructed), and encrypt(p) returns the same
\* block each time.
C7_InstanceReadOnly ==
    /\ [][aes.status = "ready" => aes' = aes]_vars
    /\ [](aes.status = "ready" => aes.key = arg_key)
    /\ []SameEncryptSameBlock

C7_Witness ==
    /\ calls[1].op = "encrypt" /\ calls[1].pc = "done"
    /\ calls[2].op = "encrypt" /\ calls[2].pc = "done"
    /\ calls[1].plaintext = calls[2].plaintext
    /\ aes.status = "ready"

\* C8: for a 16-byte state s and round key k, add_round_key(s, k) is the
\* 16-byte block of the bytes s[i] XOR k[i], and applying it twice gives s.
C8_AddRoundKeySelfInverse ==
    \A t \in DOMAIN calls, k \in 1..Len(aes.round_keys) :
        LET s == calls[t].state
            rk == aes.round_keys[k]
            x == add_round_key(s, rk)
        IN  (IsBlock(s) /\ IsBlock(rk))
            => /\ IsBlock(x)
               /\ \A j \in 1..16 : x[j] = BitXor(s[j], rk[j])
               /\ add_round_key(x, rk) = s

C8_Witness ==
    /\ calls[1].pc = "loop"
    /\ calls[1].i = 3
    /\ IsBlock(calls[1].state)
    /\ add_round_key(calls[1].state, calls[1].round_key) # calls[1].state

\* C9: an encrypt call applies add_round_key with key 0, then rounds 1..9 as
\* substitute, shift rows, mix columns, add_round_key(key i), then round 10 as
\* substitute, shift rows, add_round_key(key 10): each round key read once in
\* index order, mix_column 9 times and not in round 10.
C9_EncryptOrder ==
    \A t \in DOMAIN calls :
        LET c == calls[t] IN
        c.op = "encrypt"
        => /\ IsPrefix(c.trace, MainRounds(9) \o LastRoundOf(10))
           /\ IsPrefix(c.keys, UpTo(10))
           /\ c.pc = "done" => /\ c.trace = MainRounds(9) \o LastRoundOf(10)
                               /\ c.keys = UpTo(10)
                               /\ Count(c.trace, "mix_column") = 9

C9_Witness ==
    /\ calls[1].op = "encrypt"
    /\ calls[1].pc = "done"
    /\ Len(calls[1].trace) = 40

====
